---- MODULE Spec2Model ----
(***************************************************************************)
(* The auto clicker of hirokiyoshino/auto_click_check_move: one control    *)
(* loop in three variants,                                                 *)
(*   "main_ts"   src/main.ts                                               *)
(*   "part_000"  src/unnamed/part_000                                      *)
(*   "sh"        src/auto_click_check_move.sh                              *)
(* The backend (cliclick) is the environment: every call to it returns a   *)
(* result chosen from BackendResults.  A Deno variant is a set of pending  *)
(* continuations (the awaits of main and of the setInterval callbacks);    *)
(* a step of the model runs one continuation from the return of its        *)
(* backend call to its next await or to Deno.exit.                         *)
(***************************************************************************)
EXTENDS Integers, Sequences, FiniteSets, TLC

VARIABLES
  variant,        \* which of the three programs runs
  installed,      \* environment: the cliclick executable is on the PATH
  pc,             \* position of main: "check", "init_probe", "init_click", "running", "exited"
  exitCode,       \* NoExit while the process lives, else its exit status
  listener,       \* a SIGINT listener is registered
  intervalId,     \* TRUE while the setInterval timer is set and not cleared
  previousCoords, \* the last accepted coordinate (prev_x, prev_y in the shell)
  inflight,       \* tick id -> [phase, cur, base]: the ticks awaiting a backend call
  nextTick,       \* number of ticks started so far
  clicks,         \* number of click commands (c:.) issued so far
  probes,         \* number of position queries (p:.) issued so far
  exitReason,     \* history: why the process ended
  fatal,          \* history: some backend call has failed
  initOk,         \* history: "pending", "ok" or "failed" outcome of probe + first click
  lastGood,       \* history: the initial probe, then the probe of the last tick that was
                  \* within tolerance and whose click succeeded
  goodTicks,      \* history: number of such ticks
  stopTick,       \* history: id of the tick that stopped on movement, 0 if none
  stopProbe,      \* history: the coordinate that tick had probed, Null if none
  input,          \* argument of the function under evaluation (GuardSpec), else Idle
  output          \* its result, Idle until evaluated

\* What no step of a run changes.
env == <<variant, installed, input, output>>

vars == <<input, output, variant, installed, pc, exitCode, listener, intervalId, previousCoords,
          inflight, nextTick, clicks, probes, exitReason, fatal, initOk, lastGood,
          goodTicks, stopTick, stopProbe>>

(***************************************************************************)
(* Settings and bounds                                                     *)
(***************************************************************************)
TOLERANCE == 10

\* Number of ticks a run of the model starts.
MaxTicks == 4

\* Number of ticks of a Deno variant that may await the backend at once.
MaxInFlight == 2

\* GuardSpec: previous coordinates range over 0..GridMax on each axis,
\* tolerances over 0..MaxTol and TOLERANCE.
GridMax == 1

MaxTol == 2

\* ParseSpec: backend outputs of up to MaxLen characters before the newline.
MaxLen == 4

\* input and output outside an evaluation
Idle == [kind |-> "idle"]

NoExit == 0 - 1
\* Exit status of a process killed by an unhandled SIGINT (128 + 2).
SignalDeath == 128 + 2

Variants == {"main_ts", "part_000", "sh"}

(***************************************************************************)
(* Text: a backend output is a sequence of one-character strings.          *)
(***************************************************************************)
Digits == <<"0", "1", "2", "3", "4", "5", "6", "7", "8", "9">>

IsDigit(c) == \E i \in 1..10 : Digits[i] = c

DigitVal(c) == (CHOOSE i \in 1..10 : Digits[i] = c) - 1

IsSpace(c) == c \in {" ", "\n"}

RECURSIVE Fmt(_)
\* Decimal text of a natural number, as the backend prints a coordinate.
Fmt(n) == IF n < 10 THEN <<Digits[n + 1]>> ELSE Fmt(n \div 10) \o <<Digits[(n % 10) + 1]>>

RECURSIVE TrimLeft(_)
TrimLeft(s) == IF s # <<>> /\ IsSpace(Head(s)) THEN TrimLeft(Tail(s)) ELSE s

RECURSIVE TrimRight(_)
TrimRight(s) ==
  IF s # <<>> /\ IsSpace(s[Len(s)]) THEN TrimRight(SubSeq(s, 1, Len(s) - 1)) ELSE s

\* String.prototype.trim
Trim(s) == TrimRight(TrimLeft(s))

RECURSIVE StripNewlines(_)
\* $(...) removes the trailing newlines of the command's output.
StripNewlines(s) ==
  IF s # <<>> /\ s[Len(s)] = "\n" THEN StripNewlines(SubSeq(s, 1, Len(s) - 1)) ELSE s

RECURSIVE Split(_)
\* String.prototype.split(","): the fields between commas, at least one.
Split(s) ==
  IF \A i \in 1..Len(s) : s[i] # ","
  THEN <<s>>
  ELSE LET k == CHOOSE i \in 1..Len(s) : s[i] = "," /\ \A j \in 1..(i - 1) : s[j] # ","
       IN <<SubSeq(s, 1, k - 1)>> \o Split(SubSeq(s, k + 1, Len(s)))

RECURSIVE DigitPrefix(_)
DigitPrefix(s) ==
  IF s # <<>> /\ IsDigit(Head(s)) THEN <<Head(s)>> \o DigitPrefix(Tail(s)) ELSE <<>>

RECURSIVE DecValue(_)
DecValue(ds) ==
  IF ds = <<>> THEN 0 ELSE 10 * DecValue(SubSeq(ds, 1, Len(ds) - 1)) + DigitVal(ds[Len(ds)])

\* parseInt(s, 10): leading white space, an optional sign, the longest run of
\* digits; NaN when there is no digit.
ParseInt(s) ==
  LET t    == TrimLeft(s)
      neg  == t # <<>> /\ Head(t) = "-"
      body == IF t # <<>> /\ Head(t) \in {"-", "+"} THEN Tail(t) ELSE t
      ds   == DigitPrefix(body)
  IN IF ds = <<>> THEN [nan |-> TRUE, val |-> 0]
     ELSE [nan |-> FALSE, val |-> IF neg THEN 0 - DecValue(ds) ELSE DecValue(ds)]

AllDigits(s) == s # <<>> /\ \A i \in 1..Len(s) : IsDigit(s[i])

(***************************************************************************)
(* Points                                                                  *)
(***************************************************************************)
Point(x, y) == [nil |-> FALSE, x |-> x, y |-> y]

Null == [nil |-> TRUE, x |-> 0, y |-> 0]


(***************************************************************************)
(* The backend.  Positions are the pointer positions the environment       *)
(* reports; BadOutputs are outputs that are not "<int>,<int>".             *)
(***************************************************************************)
Positions == {Point(500, 500), Point(510, 500), Point(520, 500), Point(500, 511)}

PositionOutput(p) == Fmt(p.x) \o <<",">> \o Fmt(p.y) \o <<"\n">>

BadOutputs ==
  { <<>>,
    <<"1", "0", "0", "\n">>,
    <<"1", "0", "0", ",", "\n">>,
    <<"a", "b", "c", ",", "2", "0", "0", "\n">>,
    <<"5", "0", "0", ",", "5", "0", "0", "p", "x", "\n">> }

Outputs == {PositionOutput(p) : p \in Positions} \cup BadOutputs

\* What a call of the backend can return: the executable is missing, or it
\* exits with a status and has written `out` to its standard output.
NotFoundResult == [nf |-> TRUE, code |-> 127, out |-> <<>>]

ProbeResults ==
  IF installed
  THEN {[nf |-> FALSE, code |-> 0, out |-> o] : o \in Outputs}
       \cup {[nf |-> FALSE, code |-> 1, out |-> <<>>]}
  ELSE {NotFoundResult}

ClickResults ==
  IF installed
  THEN {[nf |-> FALSE, code |-> c, out |-> <<>>] : c \in {0, 1}}
  ELSE {NotFoundResult}

\* History only: the kind of failure behind a rejected probe.
ProbeCause(r) ==
  IF r.nf THEN "notfound" ELSE IF r.code # 0 THEN "probe_failed" ELSE "malformed"

ClickCause(r) == IF r.nf THEN "notfound" ELSE "click_failed"

(***************************************************************************)
(* runCliclick, getCurrentCoords, click                                    *)
(***************************************************************************)
\* runCliclick: the trimmed standard output, or the error it raises.
RunCliclick(r) ==
  IF r.nf THEN [err |-> "notfound", out |-> <<>>]
  ELSE IF r.code # 0 THEN [err |-> "failed", out |-> <<>>]
  ELSE [err |-> "none", out |-> Trim(r.out)]

\* getCurrentCoords of the Deno variants: a point, or no point (null / throw).
GetCurrentCoords(r) ==
  LET c     == RunCliclick(r)
      parts == Split(c.out)
  IN IF c.err # "none" THEN [ok |-> FALSE, pt |-> Null]
     ELSE IF Len(parts) = 2 /\ ~ParseInt(parts[1]).nan /\ ~ParseInt(parts[2]).nan
          THEN [ok |-> TRUE, pt |-> Point(ParseInt(parts[1]).val, ParseInt(parts[2]).val)]
          ELSE [ok |-> FALSE, pt |-> Null]

\* click of the Deno variants: TRUE iff the command ran and exited with 0.
Click(r) == RunCliclick(r).err = "none"

\* get_current_coords of the shell script: the exit status of cliclick is not
\* looked at, only its output.  (The outputs of this model have no leading
\* zeros, so the fields read as decimal numbers in $((...)).)
ShGetCurrentCoords(r) ==
  LET coords == StripNewlines(r.out)
      parts  == Split(coords)
  IN IF coords = <<>> THEN [ok |-> FALSE, pt |-> Null]
     ELSE IF Len(parts) = 2 /\ AllDigits(parts[1]) /\ AllDigits(parts[2])
          THEN [ok |-> TRUE, pt |-> Point(DecValue(parts[1]), DecValue(parts[2]))]
          ELSE [ok |-> FALSE, pt |-> Null]

(***************************************************************************)
(* The movement guard                                                      *)
(***************************************************************************)
Abs(n) == IF n < 0 THEN 0 - n ELSE n

\* Mutant of ExceedsTolerance: >= where the code has >.
ExceedsToleranceInclusive(previous, current, tolerance) ==
  LET dx == Abs(current.x - previous.x)
      dy == Abs(current.y - previous.y)
  IN dx >= tolerance \/ dy >= tolerance

\* dx > TOLERANCE || dy > TOLERANCE with dx, dy = Math.abs(...)
ExceedsTolerance(previous, current, tolerance) ==
  LET dx == Abs(current.x - previous.x)
      dy == Abs(current.y - previous.y)
  IN dx > tolerance \/ dy > tolerance

\* (( dx > TOLERANCE || dx < -TOLERANCE || dy > TOLERANCE || dy < -TOLERANCE ))
ShExceedsTolerance(previous, current, tolerance) ==
  LET dx == current.x - previous.x
      dy == current.y - previous.y
  IN dx > tolerance \/ dx < 0 - tolerance \/ dy > tolerance \/ dy < 0 - tolerance

(***************************************************************************)
(* Ticks                                                                   *)
(***************************************************************************)
TickIds == 1..MaxTicks

NoTick == [phase |-> "none", cur |-> Null, base |-> Null]

InFlight == {t \in TickIds : inflight[t].phase # "none"}

Deno == variant \in {"main_ts", "part_000"}

(***************************************************************************)
(* The end of the process                                                  *)
(***************************************************************************)
\* The process is gone: every pending continuation and the timer with it.
ProcessEnds(code, reason) ==
  /\ exitCode' = code
  /\ exitReason' = reason
  /\ pc' = "exited"
  /\ inflight' = [t \in TickIds |-> NoTick]
  /\ intervalId' = FALSE

\* Mutant of DenoExit: the exit status is set and the timer cleared, but the
\* process ends only when its pending callbacks have run (no Deno.exit).
DenoExitDrains(code, reason) ==
  /\ exitCode' = code
  /\ exitReason' = reason
  /\ pc' = "exited"
  /\ inflight' = inflight
  /\ intervalId' = FALSE

\* clearInterval / stopInterval followed by Deno.exit(code)
DenoExit(code, reason) == ProcessEnds(code, reason)

\* exit 1, or the end of the script after break (status of the last echo)
ShExit(code, reason) == ProcessEnds(code, reason)

\* SIGINT with no listener and no trap: the default action kills the process.
SignalKill == ProcessEnds(SignalDeath, "interrupt")

(***************************************************************************)
(* Initial state: main has run to its first await (Deno), or the script    *)
(* is about to run check_cliclick (shell).                                 *)
(***************************************************************************)
Init ==
  /\ variant \in Variants
  /\ installed \in BOOLEAN
  /\ pc = IF variant = "sh" THEN "check" ELSE "init_probe"
  /\ exitCode = NoExit
  /\ listener = (variant = "part_000")
  /\ intervalId = FALSE
  /\ previousCoords = Null
  /\ inflight = [t \in TickIds |-> NoTick]
  /\ nextTick = 0
  /\ clicks = 0
  /\ probes = IF variant = "sh" THEN 0 ELSE 1
  /\ exitReason = "none"
  /\ fatal = FALSE
  /\ initOk = "pending"
  /\ lastGood = Null
  /\ goodTicks = 0
  /\ stopTick = 0
  /\ stopProbe = Null
  /\ input = Idle
  /\ output = Idle


(***************************************************************************)
(* Deno variants (src/main.ts, src/unnamed/part_000)                       *)
(***************************************************************************)
\* Mutant of InitFails: the failure is reported but main goes on to click.
InitFailsKeepsGoing(reason) ==
  /\ fatal' = TRUE
  /\ initOk' = "failed"
  /\ clicks' = clicks + 1
  /\ pc' = "init_click"
  /\ UNCHANGED <<env, exitCode, exitReason, inflight, intervalId, listener,
                 previousCoords, nextTick, probes, lastGood, goodTicks, stopTick, stopProbe>>

\* The initial probe or the initial click failed: report, Deno.exit(1).
InitFails(reason) ==
  /\ fatal' = TRUE
  /\ initOk' = "failed"
  /\ DenoExit(1, reason)
  /\ UNCHANGED <<env, listener, previousCoords, nextTick, clicks,
                 probes, lastGood, goodTicks, stopTick, stopProbe>>

\* The initial getCurrentCoords returns; on success main issues the first click.
InitProbeReturn(r) ==
  /\ Deno
  /\ pc = "init_probe"
  /\ LET g == GetCurrentCoords(r)
     IN IF ~g.ok
        THEN InitFails(ProbeCause(r))
        ELSE /\ previousCoords' = g.pt
             /\ lastGood' = g.pt
             /\ pc' = "init_click"
             /\ clicks' = clicks + 1
             /\ UNCHANGED <<env, exitCode, listener, intervalId, inflight,
                            nextTick, probes, exitReason, fatal, initOk,
                            goodTicks, stopTick, stopProbe>>

\* The initial click returns; on success main calls setInterval (and, in
\* main.ts, only now registers the SIGINT listener).
InitClickReturn(r) ==
  /\ Deno
  /\ pc = "init_click"
  /\ IF ~Click(r)
     THEN InitFails(ClickCause(r))
     ELSE /\ intervalId' = TRUE
          /\ listener' = TRUE
          /\ pc' = "running"
          /\ initOk' = "ok"
          /\ UNCHANGED <<env, exitCode, previousCoords, inflight, nextTick,
                         clicks, probes, exitReason, fatal, lastGood, goodTicks, stopTick, stopProbe>>

\* A tick's probe or click failed: report, clear the timer, Deno.exit(1).
TickFails(reason) ==
  /\ fatal' = TRUE
  /\ DenoExit(1, reason)
  /\ UNCHANGED <<env, listener, previousCoords, nextTick, clicks,
                 probes, initOk, lastGood, goodTicks, stopTick, stopProbe>>

\* The timer may fire: it is set, whatever the earlier callbacks are doing.
TimerMayFire == intervalId /\ pc = "running"

\* setInterval runs the callback: a new tick starts and awaits its probe.
\* part_000 hands the callback's reading of previousCoords to handleIntervalTick.
TimerFire ==
  /\ Deno
  /\ TimerMayFire
  /\ nextTick < MaxTicks
  /\ Cardinality(InFlight) < MaxInFlight
  /\ IF variant = "part_000" /\ previousCoords.nil
     THEN TickFails("internal")
     ELSE /\ nextTick' = nextTick + 1
          /\ probes' = probes + 1
          /\ inflight' = [inflight EXCEPT ![nextTick + 1] =
                            [phase |-> "probe", cur |-> Null,
                             base |-> IF variant = "part_000" THEN previousCoords ELSE Null]]
          /\ UNCHANGED <<env, pc, exitCode, listener, intervalId,
                         previousCoords, clicks, exitReason, fatal, initOk, lastGood,
                         goodTicks, stopTick, stopProbe>>

\* The coordinate tick t compares its probe with.
Baseline(t) == IF variant = "part_000" THEN inflight[t].base ELSE previousCoords

\* Mutant of TickStops: the callback clears the timer and returns with the
\* exit status set, but the process lives on until its other callbacks end.
TickStopsReturns(t) ==
  /\ stopTick' = t
  /\ exitCode' = 0
  /\ exitReason' = "moved"
  /\ pc' = "exited"
  /\ intervalId' = FALSE
  /\ inflight' = [inflight EXCEPT ![t] = NoTick]
  /\ UNCHANGED <<env, listener, previousCoords, nextTick, clicks,
                 probes, fatal, initOk, lastGood, goodTicks>>

\* Movement beyond the tolerance: log, clear the timer, Deno.exit(0).
TickStops(t) ==
  /\ stopTick' = t
  /\ DenoExit(0, "moved")
  /\ UNCHANGED <<env, listener, previousCoords, nextTick, clicks,
                 probes, fatal, initOk, lastGood, goodTicks>>

\* The probe of tick t returns: fail, stop on movement, or issue the click.
TickProbeReturn(t, r) ==
  /\ Deno
  /\ inflight[t].phase = "probe"
  /\ LET g == GetCurrentCoords(r)
     IN IF ~g.ok
        THEN TickFails(ProbeCause(r))
        ELSE IF ExceedsTolerance(Baseline(t), g.pt, TOLERANCE)
        THEN stopProbe' = g.pt /\ TickStops(t)
        ELSE /\ inflight' = [inflight EXCEPT ![t].phase = "click", ![t].cur = g.pt]
             /\ clicks' = clicks + 1
             /\ UNCHANGED <<env, pc, exitCode, listener, intervalId,
                            previousCoords, nextTick, probes, exitReason, fatal, initOk,
                            lastGood, goodTicks, stopTick, stopProbe>>

\* The click of tick t returns: on success its probe becomes previousCoords.
TickClickReturn(t, r) ==
  /\ Deno
  /\ inflight[t].phase = "click"
  /\ IF ~Click(r)
     THEN TickFails(ClickCause(r))
     ELSE /\ previousCoords' = inflight[t].cur
          /\ lastGood' = inflight[t].cur
          /\ goodTicks' = goodTicks + 1
          /\ inflight' = [inflight EXCEPT ![t] = NoTick]
          /\ UNCHANGED <<env, pc, exitCode, listener, intervalId, nextTick,
                         clicks, probes, exitReason, fatal, initOk, stopTick, stopProbe>>

(***************************************************************************)
(* Shell variant (src/auto_click_check_move.sh)                            *)
(***************************************************************************)
\* check_cliclick: exit 1 when the command is missing, else the first probe.
ShCheck ==
  /\ variant = "sh"
  /\ pc = "check"
  /\ IF ~installed
     THEN /\ fatal' = TRUE
          /\ initOk' = "failed"
          /\ ShExit(1, "notfound")
          /\ UNCHANGED <<env, listener, previousCoords, nextTick, clicks,
                         probes, lastGood, goodTicks, stopTick, stopProbe>>
     ELSE /\ pc' = "init_probe"
          /\ probes' = probes + 1
          /\ UNCHANGED <<env, exitCode, listener, intervalId,
                         previousCoords, inflight, nextTick, clicks, exitReason, fatal,
                         initOk, lastGood, goodTicks, stopTick, stopProbe>>

\* The first get_current_coords returns: exit 1, or record prev and click.
ShInitProbeReturn(r) ==
  /\ variant = "sh"
  /\ pc = "init_probe"
  /\ LET g == ShGetCurrentCoords(r)
     IN IF ~g.ok
        THEN /\ fatal' = TRUE
             /\ initOk' = "failed"
             /\ ShExit(1, ProbeCause(r))
             /\ UNCHANGED <<env, listener, previousCoords, nextTick,
                            clicks, probes, lastGood, goodTicks, stopTick, stopProbe>>
        ELSE /\ previousCoords' = g.pt
             /\ lastGood' = g.pt
             /\ pc' = "init_click"
             /\ clicks' = clicks + 1
             /\ UNCHANGED <<env, exitCode, listener, intervalId, inflight,
                            nextTick, probes, exitReason, fatal, initOk,
                            goodTicks, stopTick, stopProbe>>

\* The first cliclick c:. returns; its exit status is not looked at.
ShInitClickReturn(r) ==
  /\ variant = "sh"
  /\ pc = "init_click"
  /\ pc' = "running"
  /\ fatal' = (fatal \/ r.code # 0)
  /\ initOk' = IF r.code = 0 THEN "ok" ELSE "failed"
  /\ UNCHANGED <<env, exitCode, listener, intervalId, previousCoords,
                 inflight, nextTick, clicks, probes, exitReason, lastGood, goodTicks,
                 stopTick, stopProbe>>

\* After sleep, the next iteration of while true starts with its probe.
ShLoop ==
  /\ variant = "sh"
  /\ pc = "running"
  /\ InFlight = {}
  /\ nextTick < MaxTicks
  /\ nextTick' = nextTick + 1
  /\ probes' = probes + 1
  /\ inflight' = [inflight EXCEPT ![nextTick + 1] =
                    [phase |-> "probe", cur |-> Null, base |-> Null]]
  /\ UNCHANGED <<env, pc, exitCode, listener, intervalId, previousCoords,
                 clicks, exitReason, fatal, initOk, lastGood, goodTicks, stopTick, stopProbe>>

\* get_current_coords of iteration t returns: break (and the script ends
\* with the status of its last echo), or click.
ShProbeReturn(t, r) ==
  /\ variant = "sh"
  /\ inflight[t].phase = "probe"
  /\ LET g == ShGetCurrentCoords(r)
     IN IF ~g.ok
        THEN /\ fatal' = TRUE
             /\ ShExit(0, ProbeCause(r))
             /\ UNCHANGED <<env, listener, previousCoords, nextTick,
                            clicks, probes, initOk, lastGood, goodTicks, stopTick, stopProbe>>
        ELSE IF ShExceedsTolerance(previousCoords, g.pt, TOLERANCE)
        THEN /\ stopTick' = t
             /\ stopProbe' = g.pt
             /\ ShExit(0, "moved")
             /\ UNCHANGED <<env, listener, previousCoords, nextTick,
                            clicks, probes, fatal, initOk, lastGood, goodTicks>>
        ELSE /\ inflight' = [inflight EXCEPT ![t].phase = "click", ![t].cur = g.pt]
             /\ clicks' = clicks + 1
             /\ UNCHANGED <<env, pc, exitCode, listener, intervalId,
                            previousCoords, nextTick, probes, exitReason, fatal, initOk,
                            lastGood, goodTicks, stopTick, stopProbe>>

\* cliclick c:. of iteration t returns; whatever its status, prev_x and
\* prev_y take the probe and the loop sleeps.
ShClickReturn(t, r) ==
  /\ variant = "sh"
  /\ inflight[t].phase = "click"
  /\ previousCoords' = inflight[t].cur
  /\ fatal' = (fatal \/ r.code # 0)
  /\ lastGood' = IF r.code = 0 THEN inflight[t].cur ELSE lastGood
  /\ goodTicks' = IF r.code = 0 THEN goodTicks + 1 ELSE goodTicks
  /\ inflight' = [inflight EXCEPT ![t] = NoTick]
  /\ UNCHANGED <<env, pc, exitCode, listener, intervalId, nextTick,
                 clicks, probes, exitReason, initOk, stopTick, stopProbe>>

(***************************************************************************)
(* SIGINT                                                                  *)
(***************************************************************************)
\* The listener of the Deno variants: log, clear the timer, Deno.exit(0).
\* Without a listener (main.ts before setInterval, the shell script, which
\* sets no trap) the signal kills the process.
Interrupt ==
  /\ exitCode = NoExit
  /\ IF listener THEN DenoExit(0, "interrupt") ELSE SignalKill
  /\ UNCHANGED <<env, listener, previousCoords, nextTick, clicks,
                 probes, fatal, initOk, lastGood, goodTicks, stopTick, stopProbe>>

Next ==
  \/ \E r \in ProbeResults : InitProbeReturn(r)
  \/ \E r \in ClickResults : InitClickReturn(r)
  \/ TimerFire
  \/ \E t \in TickIds : \E r \in ProbeResults : TickProbeReturn(t, r)
  \/ \E t \in TickIds : \E r \in ClickResults : TickClickReturn(t, r)
  \/ ShCheck
  \/ \E r \in ProbeResults : ShInitProbeReturn(r)
  \/ \E r \in ClickResults : ShInitClickReturn(r)
  \/ ShLoop
  \/ \E t \in TickIds : \E r \in ProbeResults : ShProbeReturn(t, r)
  \/ \E t \in TickIds : \E r \in ClickResults : ShClickReturn(t, r)
  \/ Interrupt

Spec == Init /\ [][Next]_vars

TypeOK ==
  /\ variant \in Variants
  /\ installed \in BOOLEAN
  /\ pc \in {"check", "init_probe", "init_click", "running", "exited"}
  /\ exitCode \in {NoExit, 0, 1, SignalDeath}
  /\ listener \in BOOLEAN
  /\ intervalId \in BOOLEAN
  /\ nextTick \in 0..MaxTicks
  /\ clicks \in 0..(MaxTicks + 1)
  /\ probes \in 0..(MaxTicks + 1)
  /\ goodTicks \in 0..MaxTicks
  /\ stopTick \in 0..MaxTicks
  /\ \A t \in TickIds : inflight[t].phase \in {"none", "probe", "click"}


(***************************************************************************)
(* The loop without an end: FairSpec.  setInterval and `while true` go on  *)
(* for as long as nothing stops them; only the counters of the history     *)
(* grow.  Rewind starts the counters over once MaxTicks ticks have run and *)
(* none is in flight, and leaves the program's state as it is, so that a   *)
(* run of any length is a run of the finite model.  Fairness: a backend    *)
(* call that was issued returns, the timer that is set fires, the script   *)
(* takes its next step.  Nothing makes an interrupt come.                  *)
(***************************************************************************)
Rewind ==
  /\ pc = "running"
  /\ InFlight = {}
  /\ nextTick = MaxTicks
  /\ nextTick' = 0
  /\ clicks' = 1
  /\ probes' = 1
  /\ goodTicks' = 0
  /\ UNCHANGED <<env, pc, exitCode, listener, intervalId, previousCoords, inflight,
                 exitReason, fatal, initOk, lastGood, stopTick, stopProbe>>

FairNext == Next \/ Rewind

Fairness ==
  /\ WF_vars(\E r \in ProbeResults : InitProbeReturn(r))
  /\ WF_vars(\E r \in ClickResults : InitClickReturn(r))
  /\ WF_vars(TimerFire)
  /\ \A t \in TickIds : WF_vars(\E r \in ProbeResults : TickProbeReturn(t, r))
  /\ \A t \in TickIds : WF_vars(\E r \in ClickResults : TickClickReturn(t, r))
  /\ WF_vars(ShCheck)
  /\ WF_vars(\E r \in ProbeResults : ShInitProbeReturn(r))
  /\ WF_vars(\E r \in ClickResults : ShInitClickReturn(r))
  /\ WF_vars(ShLoop)
  /\ \A t \in TickIds : WF_vars(\E r \in ProbeResults : ShProbeReturn(t, r))
  /\ \A t \in TickIds : WF_vars(\E r \in ClickResults : ShClickReturn(t, r))
  /\ WF_vars(Rewind)

FairSpec == Init /\ [][FairNext]_vars /\ Fairness

(***************************************************************************)
(* The movement guard as a function: GuardSpec evaluates both forms of     *)
(* the comparison on every input of GuardInputs.                           *)
(***************************************************************************)
Tolerances == (0..MaxTol) \cup {TOLERANCE}

\* Every previous point of the grid with every current point whose offset
\* on each axis lies within tolerance + 1 of it, in both directions.
GuardInputs ==
  UNION { { [kind |-> "guard", previous |-> Point(a, b),
             current |-> Point(a + dx, b + dy), tolerance |-> t]
            : dx \in (0 - (t + 1))..(t + 1), dy \in (0 - (t + 1))..(t + 1) }
          : a \in 0..GridMax, b \in 0..GridMax, t \in Tolerances }

GuardInit ==
  /\ variant = "main_ts"
  /\ installed = TRUE
  /\ pc = "init_probe"
  /\ exitCode = NoExit
  /\ listener = FALSE
  /\ intervalId = FALSE
  /\ previousCoords = Null
  /\ inflight = [t \in TickIds |-> NoTick]
  /\ nextTick = 0
  /\ clicks = 0
  /\ probes = 1
  /\ exitReason = "none"
  /\ fatal = FALSE
  /\ initOk = "pending"
  /\ lastGood = Null
  /\ goodTicks = 0
  /\ stopTick = 0
  /\ stopProbe = Null
  /\ input \in GuardInputs
  /\ output = Idle

\* The decision of the Deno variants and of the shell script on the input.
GuardEval ==
  /\ input.kind = "guard"
  /\ output.kind = "idle"
  /\ output' = [kind |-> "guard",
                ts |-> ExceedsTolerance(input.previous, input.current, input.tolerance),
                sh |-> ShExceedsTolerance(input.previous, input.current, input.tolerance)]
  /\ UNCHANGED <<input, variant, installed, pc, exitCode, listener, intervalId,
                 previousCoords, inflight, nextTick, clicks, probes, exitReason, fatal,
                 initOk, lastGood, goodTicks, stopTick, stopProbe>>

GuardNext == GuardEval

GuardSpec == GuardInit /\ [][GuardNext]_vars


(***************************************************************************)
(* The position probe as a function: ParseSpec gives every output of       *)
(* ParseInputs, as the standard output of a `cliclick p:.` that exited     *)
(* with 0, to getCurrentCoords and to get_current_coords.                  *)
(***************************************************************************)
\* The loop at rest, for the specifications that evaluate a function.
EvalInit ==
  /\ variant = "main_ts"
  /\ installed = TRUE
  /\ pc = "init_probe"
  /\ exitCode = NoExit
  /\ listener = FALSE
  /\ intervalId = FALSE
  /\ previousCoords = Null
  /\ inflight = [t \in TickIds |-> NoTick]
  /\ nextTick = 0
  /\ clicks = 0
  /\ probes = 1
  /\ exitReason = "none"
  /\ fatal = FALSE
  /\ initOk = "pending"
  /\ lastGood = Null
  /\ goodTicks = 0
  /\ stopTick = 0
  /\ stopProbe = Null
  /\ output = Idle

\* The loop's variables, which an evaluation leaves alone.
loopVars == <<variant, installed, pc, exitCode, listener, intervalId, previousCoords,
              inflight, nextTick, clicks, probes, exitReason, fatal, initOk, lastGood,
              goodTicks, stopTick, stopProbe>>

ParseAlphabet == {"1", "2", ",", "a", "-", " "}

RECURSIVE Strings(_)
\* The texts over ParseAlphabet of at most n characters.
Strings(n) ==
  IF n = 0 THEN {<<>>}
  ELSE LET shorter == Strings(n - 1)
       IN shorter \cup {Append(s, c) : s \in shorter, c \in ParseAlphabet}

\* The outputs of section 8 of the specification, and a number followed by text.
NamedOutputs ==
  { <<"1", "0", "0", ",", "2", "0", "0">>,
    <<"1", "0", "0">>,
    <<"1", "0", "0", ",">>,
    <<"a", "b", "c", ",", "2", "0", "0">>,
    <<"5", "0", "0", ",", "5", "0", "0", "p", "x">> }

\* What the backend writes: a line, ended by a newline (nothing at all for
\* the empty text).
ParseInputs ==
  {[kind |-> "parse", out |-> IF s = <<>> THEN s ELSE Append(s, "\n")]
     : s \in Strings(MaxLen) \cup NamedOutputs}

ParseInit == EvalInit /\ input \in ParseInputs

ParseEval ==
  /\ input.kind = "parse"
  /\ output.kind = "idle"
  /\ LET r == [nf |-> FALSE, code |-> 0, out |-> input.out]
     IN output' = [kind |-> "parse", ts |-> GetCurrentCoords(r), sh |-> ShGetCurrentCoords(r)]
  /\ UNCHANGED <<input, loopVars>>

ParseNext == ParseEval

ParseSpec == ParseInit /\ [][ParseNext]_vars

(***************************************************************************)
(* A run as a function of what happens to it: RunSpec gives one script,    *)
(* the results of the successive backend calls and the moments of SIGINT,  *)
(* to the three variants, each call returning before the next timer fires. *)
(***************************************************************************)
\* The longest script.
MaxScript == 3

\* A call returns a position, a position beyond tolerance of it, or fails.
RunResults ==
  { [nf |-> FALSE, code |-> 0, out |-> PositionOutput(Point(500, 500))],
    [nf |-> FALSE, code |-> 0, out |-> PositionOutput(Point(520, 500))],
    [nf |-> FALSE, code |-> 1, out |-> <<>>] }

\* One event of a script: the pending call returns r, or SIGINT arrives
\* while it is pending.
RunEvents ==
  {[int |-> FALSE, r |-> r] : r \in RunResults}
    \cup {[int |-> TRUE, r |-> [nf |-> FALSE, code |-> 0, out |-> <<>>]]}

RECURSIVE Scripts(_)
\* The scripts of at most n events.
Scripts(n) ==
  IF n = 0 THEN {<<>>}
  ELSE LET shorter == Scripts(n - 1)
       IN shorter \cup {Append(s, e) : s \in shorter, e \in RunEvents}

\* main is at its first await: the initial probe is pending.
RunStart ==
  [phase |-> "init_probe", prev |-> Null, cur |-> Null, clicks |-> 0, exit |-> NoExit]

\* Is a SIGINT listener registered?  part_000 registers it before the initial
\* probe, main.ts after setInterval, the shell script sets no trap.
RunListener(v, phase) ==
  \/ v = "part_000"
  \/ v = "main_ts" /\ phase \in {"probe", "click"}

\* The state of variant v after event e.
RunStep(v, s, e) ==
  LET g    == IF v = "sh" THEN ShGetCurrentCoords(e.r) ELSE GetCurrentCoords(e.r)
      far  == IF v = "sh" THEN ShExceedsTolerance(s.prev, g.pt, TOLERANCE)
                          ELSE ExceedsTolerance(s.prev, g.pt, TOLERANCE)
      done == v = "sh" \/ Click(e.r)
  IN IF s.exit # NoExit THEN s
     ELSE IF e.int
     THEN [s EXCEPT !.exit = IF RunListener(v, s.phase) THEN 0 ELSE SignalDeath]
     ELSE IF s.phase = "init_probe"
     THEN IF ~g.ok THEN [s EXCEPT !.exit = 1]
          ELSE [s EXCEPT !.phase = "init_click", !.prev = g.pt, !.clicks = s.clicks + 1]
     ELSE IF s.phase = "init_click"
     THEN IF done THEN [s EXCEPT !.phase = "probe"] ELSE [s EXCEPT !.exit = 1]
     ELSE IF s.phase = "probe"
     THEN IF ~g.ok THEN [s EXCEPT !.exit = IF v = "sh" THEN 0 ELSE 1]
          ELSE IF far THEN [s EXCEPT !.exit = 0]
          ELSE [s EXCEPT !.phase = "click", !.cur = g.pt, !.clicks = s.clicks + 1]
     ELSE IF done THEN [s EXCEPT !.phase = "probe", !.prev = s.cur]
          ELSE [s EXCEPT !.exit = 1]

RECURSIVE Run(_, _, _)
\* The state of variant v, started in s, after the events of script.
Run(v, s, script) ==
  IF script = <<>> THEN s
  ELSE Run(v, RunStep(v, s, Head(script)), Tail(script))

\* What can be observed of a run: the click commands issued (all of them are
\* `cliclick c:.`, so their number), and the exit status (NoExit: running).
RunOutcome(v, script) ==
  LET s == Run(v, RunStart, script)
  IN [clicks |-> s.clicks, exit |-> s.exit]

RunInputs == {[kind |-> "run", script |-> sc] : sc \in Scripts(MaxScript)}

RunInit == EvalInit /\ input \in RunInputs

RunEval ==
  /\ input.kind = "run"
  /\ output.kind = "idle"
  /\ output' = [kind |-> "run",
                main_ts  |-> RunOutcome("main_ts", input.script),
                part_000 |-> RunOutcome("part_000", input.script),
                sh       |-> RunOutcome("sh", input.script)]
  /\ UNCHANGED <<input, loopVars>>

RunNext == RunEval

RunSpec == RunInit /\ [][RunNext]_vars

(***************************************************************************)
(* Properties                                                              *)
(***************************************************************************)
Terminated == exitCode # NoExit

Failures == {"notfound", "probe_failed", "malformed", "click_failed", "internal"}

\* C1: ticks never overlap: in every reachable state at most one tick
\* (probe, compare, click) is in flight, whatever the latency of the backend.
C1_TicksNeverOverlap == Cardinality(InFlight) <= 1

\* C2: a manual interrupt delivered while Initializing or Running always ends
\* the run in Stopped with exit code 0, never by signal death or otherwise.
C2_InterruptExitsZero == exitReason = "interrupt" => exitCode = 0

\* C3: the exit code is 0 exactly when the run ended by manual interrupt or by
\* movement beyond the tolerance, and 1 for every failure; no failure path
\* ends with exit code 0.  (That an interrupt gives 0 is C2's statement; here
\* are the others: movement gives 0, 0 is given by nothing but interrupt and
\* movement, every failure gives 1.)
C3_ExitCodes ==
  Terminated =>
    /\ exitReason = "moved" => exitCode = 0
    /\ exitCode = 0 => exitReason \in {"interrupt", "moved"}
    /\ exitReason \in Failures => exitCode = 1

\* C4: after a fatal condition (a failed probe or a failed click) no further
\* click command is issued.
C4_NoClickAfterFatal == [][fatal => clicks' = clicks]_vars

\* C5: while Running, the last accepted coordinate is the probe of the most
\* recently completed successful tick (within tolerance, click succeeded), or
\* the initial probe when no tick has completed.
C5_LastAccepted == pc = "running" => previousCoords = lastGood

\* |c - a| > t or |d - b| > t, said without the absolute value: an offset
\* leaves the interval -t..t.
RefExceeds(previous, current, tolerance) ==
  \/ (current.x - previous.x) \notin (0 - tolerance)..tolerance
  \/ (current.y - previous.y) \notin (0 - tolerance)..tolerance

\* C6: for all integer coordinates and every tolerance t >= 0 the movement
\* decision is "stop" iff |c - a| > t or |d - b| > t, in the TypeScript form
\* and in the shell form alike; an offset of exactly t on an axis (the other
\* within t) does not stop and an offset of t + 1 does, in both directions.
C6_GuardMatchesReference ==
  output.kind = "guard" =>
    LET t  == input.tolerance
        dx == input.current.x - input.previous.x
        dy == input.current.y - input.previous.y
        within(d) == d \in (0 - t)..t
    IN /\ output.ts = RefExceeds(input.previous, input.current, t)
       /\ output.sh = RefExceeds(input.previous, input.current, t)
       /\ (dx \in {t, 0 - t} /\ within(dy)) => (~output.ts /\ ~output.sh)
       /\ (dy \in {t, 0 - t} /\ within(dx)) => (~output.ts /\ ~output.sh)
       /\ (dx \in {t + 1, 0 - (t + 1)} \/ dy \in {t + 1, 0 - (t + 1)})
            => (output.ts /\ output.sh)

\* C6 witness: an offset of -(TOLERANCE + 1) on one axis has been judged.
C6_Witness ==
  /\ output.kind = "guard"
  /\ input.tolerance = TOLERANCE
  /\ input.current.x - input.previous.x = 0 - (TOLERANCE + 1)
  /\ input.current.y = input.previous.y
  /\ output.ts
  /\ output.sh

\* C7: when tick k is the first tick whose probe exceeds the tolerance and
\* nothing failed before, the run ends with exit code 0 and exactly k - 1
\* clicks were issued after the initial click, none in tick k or later.
C7_StopAtTickK == (exitReason = "moved" /\ ~fatal) => (exitCode = 0 /\ clicks = stopTick)

\* C8: Running is entered only after the initial probe and exactly one initial
\* click succeeded; when either fails the process exits non-zero and no tick
\* ever runs.
C8_RunningOnlyAfterInit ==
  /\ (pc = "running" \/ nextTick > 0) => initOk = "ok"
  /\ (pc = "running" /\ nextTick = 0) => clicks = 1
  /\ initOk = "failed" => (pc = "exited" /\ exitCode \notin {NoExit, 0} /\ nextTick = 0)

\* C9: when the backend executable cannot be found, the process exits with
\* code 1 and no click command has been issued at any point of the run.
C9_MissingBackend ==
  /\ ~installed => clicks = 0
  /\ exitReason = "notfound" => (exitCode = 1 /\ clicks = 0 /\ nextTick = 0)
  /\ (~installed /\ Terminated /\ exitReason # "interrupt") => exitReason = "notfound"

\* C9 witness: a Deno variant has ended on the missing executable.
C9_Witness ==
  /\ ~installed
  /\ variant = "part_000"
  /\ exitReason = "notfound"
  /\ exitCode = 1

\* C10: the terminal states are absorbing: once the process has ended the
\* timer is stopped and no tick starts, no probe and no click is issued, not
\* even by a tick that was in flight when the process ended.
C10_TerminalAbsorbing ==
  /\ [](Terminated => ~intervalId)
  /\ [][Terminated =>
          /\ exitCode' = exitCode
          /\ clicks' = clicks
          /\ probes' = probes
          /\ nextTick' = nextTick
          /\ previousCoords' = previousCoords
          /\ ~intervalId']_vars

\* C10 witness: a Deno run ended (here by the interrupt) while a tick it had
\* started was still awaiting the backend.
C10_Witness ==
  /\ Deno
  /\ Terminated
  /\ exitReason = "interrupt"
  /\ nextTick > goodTicks


\* C11: shutdown is idempotent: a second stop request (a second interrupt, or
\* an interrupt racing with a tick that is itself stopping) finds nothing left
\* to do: no handler can run once the process has ended, and the exit code,
\* the reason of the stop and the cleared timer stay as the first request
\* left them.
C11_ShutdownIdempotent ==
  /\ [](Terminated => ~ENABLED Interrupt)
  /\ [][Terminated =>
          /\ exitCode' = exitCode
          /\ exitReason' = exitReason
          /\ stopTick' = stopTick
          /\ pc' = "exited"
          /\ intervalId' = intervalId]_vars

\* C11 witness: a Deno tick stopped on movement while another tick, itself
\* able to stop or fail, was still awaiting the backend.
C11_Witness ==
  /\ Deno
  /\ exitReason = "moved"
  /\ exitCode = 0
  /\ nextTick > goodTicks + 1


\* A field that is an integer and nothing else: an optional minus sign, then digits.
RefIsInteger(f) ==
  /\ f # <<>>
  /\ LET body == IF Head(f) = "-" THEN Tail(f) ELSE f
     IN body # <<>> /\ \A i \in 1..Len(body) : IsDigit(body[i])

\* The trimmed output is exactly two comma-separated integers.
RefWellFormed(out) ==
  LET t == Trim(out)
  IN /\ Cardinality({i \in 1..Len(t) : t[i] = ","}) = 1
     /\ \A i \in 1..2 : RefIsInteger(Split(t)[i])

\* C12: the position probe returns a coordinate iff the trimmed backend output
\* is exactly two comma-separated integers and fails otherwise (so an output
\* with other text in a field, such as characters after a number, is
\* rejected), and every variant accepts and rejects the same outputs.
C12_ProbeParses ==
  output.kind = "parse" =>
    /\ output.ts.ok <=> RefWellFormed(input.out)
    /\ output.sh.ok <=> RefWellFormed(input.out)
    /\ output.ts = output.sh


\* Ticks whose click has been issued and has not returned yet.
Clicking == {t \in TickIds : inflight[t].phase = "click"}

\* Nothing has gone wrong so far: the initial probe and click succeeded, no
\* backend call failed, no interrupt came, and no tick probed a coordinate
\* beyond the tolerance of the last accepted one.
AllWell ==
  /\ initOk = "ok"
  /\ ~fatal
  /\ exitReason # "interrupt"
  /\ stopTick # 0 => ~RefExceeds(previousCoords, stopProbe, TOLERANCE)

\* C13: as long as every probe is within tolerance of the last accepted
\* coordinate and every click succeeds, each tick issues exactly one click
\* (after n completed ticks, n clicks besides the initial one, and one more
\* for each tick whose click is under way) and the loop is still Running.
C13_OneClickPerTick ==
  AllWell =>
    /\ pc = "running"
    /\ ~Terminated
    /\ clicks = 1 + goodTicks + Cardinality(Clicking)

\* C14: the last accepted coordinate is written only at the end of a tick
\* whose probe was within tolerance and whose click succeeded (after its
\* seeding by the initial probe), and never while another tick is in flight;
\* the interrupt, a tick that stops and a tick that fails leave it unchanged.
C14_WrittenOnlyBetweenTicks ==
  [][previousCoords' # previousCoords =>
       \/ pc = "init_probe"
       \/ \E t \in TickIds :
            /\ InFlight = {t}
            /\ inflight[t].phase = "click"
            /\ previousCoords' = inflight[t].cur
            /\ lastGood' = inflight[t].cur
            /\ goodTicks' = goodTicks + 1]_vars

\* C15: every click issued while Running follows, in the same tick, a
\* successful probe whose coordinate is within tolerance of the last accepted
\* coordinate as it stands when the click is issued, never of a baseline that
\* another tick has replaced in the meantime.
C15_ClickAgainstCurrentBaseline ==
  [][(pc = "running" /\ clicks' = clicks + 1) =>
       \E t \in TickIds :
         /\ inflight[t].phase = "probe"
         /\ inflight'[t].phase = "click"
         /\ ~RefExceeds(previousCoords, inflight'[t].cur, TOLERANCE)]_vars


\* C16: if every backend call returns and the timer keeps firing, a run in
\* which a tick has probed a coordinate beyond the tolerance, or a backend
\* call has failed, or an interrupt was delivered, eventually reaches a
\* terminal state and the process exits.
C16_EventuallyTerminal ==
  (fatal \/ stopTick # 0 \/ exitReason = "interrupt") ~> Terminated

\* C17: the movement guard compares each probe with the immediately preceding
\* accepted sample only: as long as each probe is within tolerance of the
\* previous accepted coordinate the loop does not stop, however far that
\* coordinate has drifted from the initial probe; so a tick that stops has
\* probed beyond the tolerance of the last accepted coordinate.
C17_StopsOnlyAgainstLastAccepted ==
  stopTick # 0 => RefExceeds(previousCoords, stopProbe, TOLERANCE)

\* C18: given the same backend results and the same interrupt timing, the
\* three variants issue the same click commands and end with the same exit
\* status.
C18_VariantsAgree ==
  output.kind = "run" =>
    /\ output.main_ts = output.part_000
    /\ output.part_000 = output.sh

====
